---------------------------- MODULE Spec2Model ----------------------------
(***************************************************************************)
(* A model of the AQI anomaly-detection backend: the CSV loader and schema *)
(* normalizer (_load_and_prepare_data, fast_api.py), the IQR detector      *)
(* (detect_anomalies, main.py), the process-wide store app.state.df with   *)
(* its startup and lazy loads (startup_event, get_df) and the endpoints    *)
(* health, filters, map_data and summary.                                  *)
(*                                                                         *)
(* Text is modelled at the level of characters: a header or a query-string *)
(* parameter is a sequence of one-character strings, and trimming, case    *)
(* folding, whitespace collapsing and splitting work on that sequence.     *)
(* A table cell is a tagged value: Str(s) for text, Num(n) for text that   *)
(* is the decimal spelling of the number n, NaN for an empty cell.  Numbers *)
(* are integers; quartiles, fences and the median are kept exactly, as     *)
(* numerators over the denominators 4, 8 and 2.                            *)
(***************************************************************************)
EXTENDS Integers, Sequences, FiniteSets, TLC

VARIABLES
    source,     \* the CSV file at CSV_PATH: NoFile, or a table [headers, rows]
    df,         \* app.state.df: Unset (attribute never assigned), None, or a dataset
    startup,    \* startup_event: [pc, built]
    req,        \* the requests being served: id -> [op, pc, ...]
    table,      \* normalizer runs: the table handed to _load_and_prepare_data
    loaded,     \* normalizer runs: what _load_and_prepare_data returned or raised
    frame,      \* detector runs: the frame handed to detect_anomalies
    labelled,   \* detector runs: what detect_anomalies returned
    data,       \* query runs: the dataset held by the store
    query,      \* query runs: the parameters of the last /map-data call
    response    \* query runs: what the call returned

vars == <<source, df, startup, req, table, loaded, frame, labelled, data, query, response>>

-----------------------------------------------------------------------------
(* Values                                                                  *)

\* Python's None; a normalized header is lowercase, so it is never this string.
None == "None"

\* A pandas missing value.
NaN == [k |-> "nan"]
Num(n) == [k |-> "num", n |-> n]
Str(s) == [k |-> "str", s |-> s]

IsNum(c) == c.k = "num"
isna(c) == c.k = "nan"

\* pd.to_numeric(x, errors="coerce") on one cell: the number a numeric text
\* spells, NaN for an empty cell and for text that is no number.
ToNumericCell(c) == IF IsNum(c) THEN c ELSE NaN

Range(s) == {s[i] : i \in 1..Len(s)}

Abs(x) == IF x < 0 THEN -x ELSE x

-----------------------------------------------------------------------------
(* Text, as sequences of characters                                        *)

Whitespace == {" ", "\t"}

UpperLetters == <<"A","B","C","D","E","F","G","H","I","J","K","L","M",
                  "N","O","P","Q","R","S","T","U","V","W","X","Y","Z">>
LowerLetters == <<"a","b","c","d","e","f","g","h","i","j","k","l","m",
                  "n","o","p","q","r","s","t","u","v","w","x","y","z">>

\* str.lower() on one character.
LowerChar(c) ==
    IF \E i \in 1..26 : UpperLetters[i] = c
    THEN LowerLetters[CHOOSE i \in 1..26 : UpperLetters[i] = c]
    ELSE c

\* str.lower()
Lower(cs) == [i \in 1..Len(cs) |-> LowerChar(cs[i])]

RECURSIVE LStrip(_)
LStrip(cs) ==
    IF cs # <<>> /\ Head(cs) \in Whitespace THEN LStrip(Tail(cs)) ELSE cs

RECURSIVE RStrip(_)
RStrip(cs) ==
    IF cs # <<>> /\ cs[Len(cs)] \in Whitespace
    THEN RStrip(SubSeq(cs, 1, Len(cs) - 1))
    ELSE cs

\* str.strip()
Strip(cs) == RStrip(LStrip(cs))

\* str.replace(r"\s+", "_", regex=True): every maximal run of whitespace
\* becomes one underscore.
RECURSIVE ReplaceWs(_)
ReplaceWs(cs) ==
    IF cs = <<>> THEN <<>>
    ELSE IF Head(cs) \in Whitespace
         THEN <<"_">> \o ReplaceWs(LStrip(cs))
         ELSE <<Head(cs)>> \o ReplaceWs(Tail(cs))

\* The string a sequence of characters spells.
RECURSIVE Join(_)
Join(cs) == IF cs = <<>> THEN "" ELSE Head(cs) \o Join(Tail(cs))

\* One column name through df.columns.astype(str).str.strip().str.lower()
\* .str.replace(r"\s+", "_", regex=True)
NormalizeHeader(cs) == Join(ReplaceWs(Lower(Strip(cs))))

\* str.split(","): the pieces between the commas, empty pieces kept.
RECURSIVE SplitFrom(_, _)
SplitFrom(cs, cur) ==
    IF cs = <<>> THEN <<cur>>
    ELSE IF Head(cs) = ","
         THEN <<cur>> \o SplitFrom(Tail(cs), <<>>)
         ELSE SplitFrom(Tail(cs), Append(cur, Head(cs)))

Split(cs) == SplitFrom(cs, <<>>)

\* A variant of ParseList: the kept pieces are not trimmed.
ParseListUntrimmed(cs) ==
    LET parts == Split(cs)
        kept == SelectSeq(parts, LAMBDA p : Strip(p) # <<>>)
    IN  [i \in 1..Len(kept) |-> Join(kept[i])]

\* [c.strip() for c in s.split(",") if c.strip()], each token as a string
ParseList(cs) ==
    LET parts == Split(cs)
        kept == SelectSeq(parts, LAMBDA p : Strip(p) # <<>>)
    IN  [i \in 1..Len(kept) |-> Join(Strip(kept[i]))]

-----------------------------------------------------------------------------
(* DataFrames: a sequence of column names and the rows under them          *)

Frame(cols, rows) == [cols |-> cols, rows |-> rows]

\* The positions of the columns called name (pandas allows several).
ColIdx(d, name) == {j \in 1..Len(d.cols) : d.cols[j] = name}

TheCol(d, name) == CHOOSE j \in ColIdx(d, name) : TRUE

\* d[name] = values, values[i] being row i's: an existing column is
\* overwritten, a new one is appended on the right.
SetColumn(d, name, values) ==
    IF ColIdx(d, name) # {}
    THEN Frame(d.cols,
               [i \in 1..Len(d.rows) |->
                   [j \in 1..Len(d.cols) |->
                       IF d.cols[j] = name THEN values[i] ELSE d.rows[i][j]]])
    ELSE Frame(Append(d.cols, name),
               [i \in 1..Len(d.rows) |-> Append(d.rows[i], values[i])])

\* d[name] of a frame with exactly one column of that name, as a sequence.
Series(d, name) == [i \in 1..Len(d.rows) |-> d.rows[i][TheCol(d, name)]]

\* An exception leaving a load.
Raise(error, missing, normalized, original) ==
    [ok |-> FALSE, error |-> error, missing |-> missing,
     normalized |-> normalized, original |-> original]

Return(d) == [ok |-> TRUE, df |-> d]

-----------------------------------------------------------------------------
(* detect_anomalies (main.py)                                              *)

RECURSIVE Insert(_, _)
Insert(x, s) ==
    IF s = <<>> THEN <<x>>
    ELSE IF x <= Head(s) THEN <<x>> \o s
         ELSE <<Head(s)>> \o Insert(x, Tail(s))

RECURSIVE Sorted(_)
Sorted(s) == IF s = <<>> THEN <<>> ELSE Insert(Head(s), Sorted(Tail(s)))

\* Series.quantile(num/4) with linear interpolation, times 4: the position
\* num*(n-1)/4 in the sorted values, interpolated between its neighbours.
Quantile4(values, num) ==
    LET s == Sorted(values)
        pos == num * (Len(s) - 1)
        lo == (pos \div 4) + 1
        rem == pos % 4
        hi == IF rem = 0 THEN lo ELSE lo + 1
    IN  4 * s[lo] + rem * (s[hi] - s[lo])

\* Series.median(), times 2.
Median2(values) ==
    LET s == Sorted(values)
        n == Len(s)
    IN  IF n % 2 = 1 THEN 2 * s[(n + 1) \div 2]
        ELSE s[n \div 2] + s[(n \div 2) + 1]

\* q1 - 1.5 * iqr, times 8
LowerBound8(values) ==
    LET q1 == Quantile4(values, 1)
        q3 == Quantile4(values, 3)
        iqr == q3 - q1
    IN  2 * q1 - 3 * iqr

\* q3 + 1.5 * iqr, times 8
UpperBound8(values) ==
    LET q1 == Quantile4(values, 1)
        q3 == Quantile4(values, 3)
        iqr == q3 - q1
    IN  2 * q3 + 3 * iqr

\* A variant of OutOfBounds: a value on a fence counts as outside it.
OutOfBoundsInclusive(v, lower8, upper8) == 8 * v <= lower8 \/ 8 * v >= upper8

\* v < lower_bound or v > upper_bound
OutOfBounds(v, lower8, upper8) == 8 * v < lower8 \/ 8 * v > upper8

\* _is_anomaly(v)
IsAnomalyOf(c, lower8, upper8) ==
    IF isna(c) THEN 0
    ELSE IF OutOfBounds(c.n, lower8, upper8) THEN 1 ELSE 0

\* A variant of ScoreOf: the signed distance, without abs().
ScoreOfSigned(c, lower8, upper8, median2) ==
    IF isna(c) THEN 0
    ELSE IF OutOfBounds(c.n, lower8, upper8) THEN 2 * c.n - median2
    ELSE 0

\* _score(v), in halves: 2 * abs(v - median)
ScoreOf(c, lower8, upper8, median2) ==
    IF isna(c) THEN 0
    ELSE IF OutOfBounds(c.n, lower8, upper8) THEN Abs(2 * c.n - median2)
    ELSE 0

\* detect_anomalies(df).  The column anomaly_score holds halves: Num(193)
\* is the score 96.5.
detect_anomalies(d) ==
    IF ColIdx(d, "Value") = {}
    THEN Raise("ValueError", <<>>, d.cols, <<>>)
    ELSE IF Cardinality(ColIdx(d, "Value")) > 1
    THEN \* df["Value"] is a DataFrame, which pd.to_numeric refuses
         Raise("TypeError", <<>>, d.cols, <<>>)
    ELSE
    LET raw == Series(d, "Value")
        d1 == SetColumn(d, "Value", [i \in 1..Len(raw) |-> ToNumericCell(raw[i])])
        value == Series(d1, "Value")
        nonnull == SelectSeq(value, LAMBDA c : ~isna(c))
        value_series == [i \in 1..Len(nonnull) |-> nonnull[i].n]
    IN  IF value_series = <<>>
        THEN Return(SetColumn(
                 SetColumn(d1, "is_anomaly", [i \in 1..Len(value) |-> Num(0)]),
                 "anomaly_score", [i \in 1..Len(value) |-> Num(0)]))
        ELSE
        LET lower8 == LowerBound8(value_series)
            upper8 == UpperBound8(value_series)
            median2 == Median2(value_series)
            d2 == SetColumn(d1, "is_anomaly",
                     [i \in 1..Len(value) |-> Num(IsAnomalyOf(value[i], lower8, upper8))])
        IN  Return(SetColumn(d2, "anomaly_score",
                     [i \in 1..Len(value) |->
                         Num(ScoreOf(value[i], lower8, upper8, median2))]))

-----------------------------------------------------------------------------
(* _load_and_prepare_data (fast_api.py)                                    *)

\* os.path.exists(CSV_PATH) is false
NoFile == [k |-> "nofile"]

\* find_col(possible_names): the first of the names that is a column.
find_col(cols, possible_names) ==
    LET hits == SelectSeq(possible_names, LAMBDA name : name \in Range(cols))
    IN  IF hits = <<>> THEN None ELSE hits[1]

\* The alias lists of lines 65-83, in the order the code tries them.
CountryCodeAliases == <<"country_code", "countrycode", "code">>
CityAliases == <<"city">>
LocationAliases == <<"location", "station", "site">>
LatitudeAliases == <<"latitude", "lat">>
LongitudeAliases == <<"longitude", "lon">>
PollutantAliases == <<"pollutant", "parameter">>
SourceNameAliases == <<"source_name", "sourcename", "source">>
UnitAliases == <<"unit">>
ValueAliases == <<"value", "concentration">>
LastUpdatedAliases == <<"last_updated", "date_local", "date", "timestamp">>
CountryLabelAliases == <<"country_label", "country">>

\* required_logical: a dict, as its items in insertion order.
required_logical(cols) ==
    << <<"Country_Code", find_col(cols, CountryCodeAliases)>>,
       <<"City", find_col(cols, CityAliases)>>,
       <<"Location", find_col(cols, LocationAliases)>>,
       <<"Coordinates", "NOT_USED">>,
       <<"Pollutant", find_col(cols, PollutantAliases)>>,
       <<"Source_Name", find_col(cols, SourceNameAliases)>>,
       <<"Unit", find_col(cols, UnitAliases)>>,
       <<"Value", find_col(cols, ValueAliases)>>,
       <<"Last_Updated", find_col(cols, LastUpdatedAliases)>>,
       <<"Country_Label", find_col(cols, CountryLabelAliases)>> >>

\* The latitude/longitude check of lines 108-109.
LatLonMissing(col_latitude, col_longitude) ==
    col_latitude = None \/ col_longitude = None

\* missing_logical, lines 102-109.
missing_logical(cols) ==
    LET items == required_logical(cols)
        unresolved == SelectSeq(items,
            LAMBDA kv : kv[2] = None /\ kv[1] \notin {"Coordinates", "Source_Name"})
        names == [i \in 1..Len(unresolved) |-> unresolved[i][1]]
    IN  IF LatLonMissing(find_col(cols, LatitudeAliases),
                         find_col(cols, LongitudeAliases))
        THEN Append(names, "Latitude/Longitude")
        ELSE names

\* rename_dict, lines 128-142, as its items in insertion order.
rename_dict(cols, col_source_name) ==
    << <<find_col(cols, CountryCodeAliases), "Country_Code">>,
       <<find_col(cols, CityAliases), "City">>,
       <<find_col(cols, LocationAliases), "Location">>,
       <<find_col(cols, PollutantAliases), "Pollutant">>,
       <<col_source_name, "Source_Name">>,
       <<find_col(cols, UnitAliases), "Unit">>,
       <<find_col(cols, ValueAliases), "Value">>,
       <<find_col(cols, LastUpdatedAliases), "Last_Updated">>,
       <<find_col(cols, CountryLabelAliases), "Country_Label">>,
       <<find_col(cols, LatitudeAliases), "lat">>,
       <<find_col(cols, LongitudeAliases), "lon">> >>

\* dict lookup: of several items with one key the last one counts.
DictGet(items, key, default) ==
    LET hits == {i \in 1..Len(items) : items[i][1] = key}
    IN  IF hits = {} THEN default
        ELSE items[CHOOSE i \in hits : \A j \in hits : j <= i][2]

\* df.rename(columns=rename_dict): each column name goes through the dict;
\* the result may hold one name twice.
Rename(d, items) ==
    Frame([j \in 1..Len(d.cols) |-> DictGet(items, d.cols[j], d.cols[j])], d.rows)

\* df[name] = pd.to_numeric(df[name], errors="coerce"), lines 150-151.  With
\* two columns called name, df[name] is a DataFrame and pd.to_numeric
\* raises TypeError.
CoerceColumn(r, name) ==
    IF ~r.ok THEN r
    ELSE IF Cardinality(ColIdx(r.df, name)) # 1
    THEN Raise("TypeError", <<>>, r.df.cols, <<>>)
    ELSE LET raw == Series(r.df, name)
         IN  Return(SetColumn(r.df, name,
                       [i \in 1..Len(raw) |-> ToNumericCell(raw[i])]))

\* _load_and_prepare_data() with the file at CSV_PATH being src.
LoadAndPrepare(src) ==
    IF src = NoFile
    THEN Raise("FileNotFoundError", <<>>, <<>>, <<>>)
    ELSE
    LET original_cols == src.headers
        cols == [j \in 1..Len(src.headers) |-> NormalizeHeader(src.headers[j])]
        d0 == Frame(cols, src.rows)
        missing == missing_logical(cols)
        found_source == find_col(cols, SourceNameAliases)
        d1 == IF found_source = None
              THEN SetColumn(d0, "Source_Name",
                       [i \in 1..Len(d0.rows) |-> Str("Unknown Source")])
              ELSE d0
        col_source_name == IF found_source = None THEN "Source_Name" ELSE found_source
        d2 == Rename(d1, rename_dict(cols, col_source_name))
        r4 == CoerceColumn(CoerceColumn(Return(d2), "lat"), "lon")
    IN  IF missing # <<>>
        THEN Raise("ValueError", missing, cols, original_cols)
        ELSE IF ~r4.ok THEN r4
        ELSE detect_anomalies(r4.df)

-----------------------------------------------------------------------------
(* The endpoints' computations over a dataset (fast_api.py)                *)

\* An optional query-string parameter: left out, or given as text.
Absent == [k |-> "absent"]
Given(cs) == [k |-> "given", s |-> cs]

\* Python's truth value of an Optional[str]: None and "" are false.
Truthy(p) == p.k = "given" /\ p.s # <<>>

\* limit: int = 10000
DefaultLimit == 10000

\* Series.isin(values) on one cell; a missing value is in no list of strings.
IsIn(c, values) == c.k = "str" /\ c.s \in Range(values)

\* filtered[filtered[name].isin(values)]: the rows kept, in order.
FilterIsIn(d, name, values) ==
    Frame(d.cols, SelectSeq(d.rows, LAMBDA row : IsIn(row[TheCol(d, name)], values)))

\* filtered[filtered["is_anomaly"] == 1]
FilterAnomalies(d) ==
    Frame(d.cols, SelectSeq(d.rows, LAMBDA row : row[TheCol(d, "is_anomaly")] = Num(1)))

\* DataFrame.head(n): the first n rows, and for a negative n all rows but
\* the last -n.
Head_(d, n) ==
    LET len == Len(d.rows)
        upto == IF n >= 0 THEN (IF n < len THEN n ELSE len)
                ELSE (IF len + n > 0 THEN len + n ELSE 0)
    IN  Frame(d.cols, SubSeq(d.rows, 1, upto))

\* The columns /map-data returns, lines 251-265.
OutputColumns ==
    <<"Country_Code", "Country_Label", "City", "Location", "Pollutant",
      "Source_Name", "Unit", "Value", "Last_Updated", "lat", "lon",
      "is_anomaly", "anomaly_score">>

\* filtered[[...]].to_dict(orient="records")
ToRecords(d) ==
    [i \in 1..Len(d.rows) |->
        [c \in Range(OutputColumns) |-> d.rows[i][TheCol(d, c)]]]

\* A variant of ApplyFilters: the anomaly filter is taken from the whole
\* dataset, df[df["is_anomaly"] == 1], and drops the other filters.
ApplyFiltersFromDf(d, country, pollutant, only_anomalies) ==
    LET f1 == IF Truthy(country)
              THEN FilterIsIn(d, "Country_Label", ParseList(country.s))
              ELSE d
        f2 == IF Truthy(pollutant)
              THEN FilterIsIn(f1, "Pollutant", ParseList(pollutant.s))
              ELSE f1
    IN  IF only_anomalies THEN FilterAnomalies(d) ELSE f2

\* The rows /map-data keeps before it truncates, lines 232-243.
ApplyFilters(d, country, pollutant, only_anomalies) ==
    LET f1 == IF Truthy(country)
              THEN FilterIsIn(d, "Country_Label", ParseList(country.s))
              ELSE d
        f2 == IF Truthy(pollutant)
              THEN FilterIsIn(f1, "Pollutant", ParseList(pollutant.s))
              ELSE f1
    IN  IF only_anomalies THEN FilterAnomalies(f2) ELSE f2

\* map_data(country, pollutant, only_anomalies, limit) over the dataset d
map_data(d, country, pollutant, only_anomalies, limit) ==
    LET filtered == Head_(ApplyFilters(d, country, pollutant, only_anomalies), limit)
    IN  [count |-> Len(filtered.rows), data |-> ToRecords(filtered)]

\* df[name].dropna().unique(); the sorted list the endpoint returns is this
\* set in ascending order.
UniqueNonNull(d, name) ==
    {d.rows[i][TheCol(d, name)] : i \in 1..Len(d.rows)} \ {NaN}

\* filters() over the dataset d
filters(d) ==
    [countries |-> UniqueNonNull(d, "Country_Label"),
     pollutants |-> UniqueNonNull(d, "Pollutant"),
     cities |-> UniqueNonNull(d, "City")]

RECURSIVE SumSeq(_)
SumSeq(s) == IF s = <<>> THEN 0 ELSE Head(s) + SumSeq(Tail(s))

\* df.groupby(key)["Value"].agg(["count", "mean", "min", "max"]): one entry
\* per non-null key, over the non-null values of its rows.  The mean is kept
\* as the sum beside the count; min and max of no value are NaN.
GroupSummary(d, key) ==
    LET keys == UniqueNonNull(d, key)
        valuesOf(g) ==
            LET rows == SelectSeq(d.rows, LAMBDA row :
                            /\ row[TheCol(d, key)] = g
                            /\ ~isna(row[TheCol(d, "Value")]))
            IN  [i \in 1..Len(rows) |-> rows[i][TheCol(d, "Value")].n]
    IN  [g \in keys |->
            LET vs == valuesOf(g)
            IN  [num_measurements |-> Len(vs),
                 sum_value |-> SumSeq(vs),
                 min_value |-> IF vs = <<>> THEN NaN
                               ELSE Num(CHOOSE x \in Range(vs) : \A y \in Range(vs) : x <= y),
                 max_value |-> IF vs = <<>> THEN NaN
                               ELSE Num(CHOOSE x \in Range(vs) : \A y \in Range(vs) : x >= y)]]

\* summary() over the dataset d
summary(d) ==
    [total_rows |-> Len(d.rows),
     num_countries |-> Cardinality(UniqueNonNull(d, "Country_Label")),
     num_cities |-> Cardinality(UniqueNonNull(d, "City")),
     num_pollutants |-> Cardinality(UniqueNonNull(d, "Pollutant")),
     summary_by_country |-> GroupSummary(d, "Country_Label"),
     summary_by_pollutant |-> GroupSummary(d, "Pollutant")]

-----------------------------------------------------------------------------
(* Source tables: the CSV files the model reads                            *)

\* The spelling of each alias, character by character.
Spell(alias) ==
    IF alias = "country_code" THEN <<"c","o","u","n","t","r","y","_","c","o","d","e">> ELSE
    IF alias = "countrycode" THEN <<"c","o","u","n","t","r","y","c","o","d","e">> ELSE
    IF alias = "code" THEN <<"c","o","d","e">> ELSE
    IF alias = "city" THEN <<"c","i","t","y">> ELSE
    IF alias = "location" THEN <<"l","o","c","a","t","i","o","n">> ELSE
    IF alias = "station" THEN <<"s","t","a","t","i","o","n">> ELSE
    IF alias = "site" THEN <<"s","i","t","e">> ELSE
    IF alias = "latitude" THEN <<"l","a","t","i","t","u","d","e">> ELSE
    IF alias = "lat" THEN <<"l","a","t">> ELSE
    IF alias = "longitude" THEN <<"l","o","n","g","i","t","u","d","e">> ELSE
    IF alias = "lon" THEN <<"l","o","n">> ELSE
    IF alias = "pollutant" THEN <<"p","o","l","l","u","t","a","n","t">> ELSE
    IF alias = "parameter" THEN <<"p","a","r","a","m","e","t","e","r">> ELSE
    IF alias = "source_name" THEN <<"s","o","u","r","c","e","_","n","a","m","e">> ELSE
    IF alias = "sourcename" THEN <<"s","o","u","r","c","e","n","a","m","e">> ELSE
    IF alias = "source" THEN <<"s","o","u","r","c","e">> ELSE
    IF alias = "unit" THEN <<"u","n","i","t">> ELSE
    IF alias = "value" THEN <<"v","a","l","u","e">> ELSE
    IF alias = "concentration" THEN <<"c","o","n","c","e","n","t","r","a","t","i","o","n">> ELSE
    IF alias = "last_updated" THEN <<"l","a","s","t","_","u","p","d","a","t","e","d">> ELSE
    IF alias = "date_local" THEN <<"d","a","t","e","_","l","o","c","a","l">> ELSE
    IF alias = "date" THEN <<"d","a","t","e">> ELSE
    IF alias = "timestamp" THEN <<"t","i","m","e","s","t","a","m","p">> ELSE
    IF alias = "country_label" THEN <<"c","o","u","n","t","r","y","_","l","a","b","e","l">> ELSE
    IF alias = "country" THEN <<"c","o","u","n","t","r","y">> ELSE
    <<>>

UpperChar(c) ==
    IF \E i \in 1..26 : LowerLetters[i] = c
    THEN UpperLetters[CHOOSE i \in 1..26 : LowerLetters[i] = c]
    ELSE c

RECURSIVE WidenUnderscores(_)
WidenUnderscores(cs) ==
    IF cs = <<>> THEN <<>>
    ELSE IF Head(cs) = "_" THEN <<" ", "\t">> \o WidenUnderscores(Tail(cs))
         ELSE <<Head(cs)>> \o WidenUnderscores(Tail(cs))

\* How a CSV spells the header of a column: as the alias itself, in capitals
\* between blanks, or capitalized with blanks for the underscores.
HeaderStyles == {"plain", "shout", "spaced"}

Header(alias, style) ==
    LET cs == Spell(alias)
    IN  IF style = "plain" THEN cs
        ELSE IF style = "shout"
        THEN <<" ">> \o [i \in 1..Len(cs) |-> UpperChar(cs[i])] \o <<"\t", " ">>
        ELSE LET w == WidenUnderscores(cs)
             IN  <<UpperChar(w[1])>> \o Tail(w) \o <<" ">>

\* The logical fields with their alias lists; all but source_name are required.
Fields ==
    <<CountryCodeAliases, CityAliases, LocationAliases, LatitudeAliases,
      LongitudeAliases, PollutantAliases, SourceNameAliases, UnitAliases,
      ValueAliases, LastUpdatedAliases, CountryLabelAliases>>

\* The columns of a table from left to right: within a field the later
\* aliases stand first, so that the leftmost column is not the first alias.
RECURSIVE Reversed(_)
Reversed(s) == IF s = <<>> THEN <<>> ELSE Append(Reversed(Tail(s)), Head(s))

RECURSIVE Concat(_)
Concat(ss) == IF ss = <<>> THEN <<>> ELSE Head(ss) \o Concat(Tail(ss))

ColumnOrder == Concat([f \in 1..Len(Fields) |-> Reversed(Fields[f])])

NumericAliases ==
    Range(LatitudeAliases) \cup Range(LongitudeAliases) \cup Range(ValueAliases)

RowTags == <<"#1", "#2", "#3", "#4", "#5", "#6", "#7">>

\* The cell of row i under the column of an alias.  A text cell names its
\* column and row; a numeric column holds a number that does the same, and,
\* in its second row, text that is no number.
RawCell(alias, i) ==
    IF alias \in NumericAliases
    THEN IF i = 2 THEN Str("n/a")
         ELSE Num(10 * (CHOOSE j \in 1..Len(ColumnOrder) : ColumnOrder[j] = alias) + i)
    ELSE Str(alias \o RowTags[i])

\* The table whose columns are the aliases in present, spelled in style,
\* with n rows.
MakeTable(present, style, n) ==
    LET names == SelectSeq(ColumnOrder, LAMBDA a : a \in present)
    IN  [headers |-> [j \in 1..Len(names) |-> Header(names[j], style)],
         rows |-> [i \in 1..n |-> [j \in 1..Len(names) |-> RawCell(names[j], i)]]]

-----------------------------------------------------------------------------
(* Runs of the normalizer: one table, loaded once                          *)

Idle == [k |-> "idle"]
NotRun == [k |-> "notrun"]

SeqsUpTo(S, n) == UNION {[1..k -> S] : k \in 0..n}

\* At most this many logical fields of a table depart from the plain case,
\* in which exactly the first alias of the field is a column.
MaxVaried == 2

\* The rows of a table given to the normalizer.
NumRows == 2

FirstAliases == {Fields[f][1] : f \in 1..Len(Fields)}

\* The sets of columns in which the fields of V have any of their aliases,
\* several or none, and every other field its first.
RECURSIVE PresencesOf(_)
PresencesOf(V) ==
    IF V = {} THEN {FirstAliases}
    ELSE LET f == CHOOSE x \in V : TRUE
         IN  {(P \ Range(Fields[f])) \cup S :
                 P \in PresencesOf(V \ {f}), S \in SUBSET Range(Fields[f])}

NormPresences ==
    UNION {PresencesOf(V) :
              V \in {W \in SUBSET (1..Len(Fields)) : Cardinality(W) <= MaxVaried}}

NormTables ==
    {MakeTable(P, style, NumRows) : P \in NormPresences, style \in HeaderStyles}

StoreIdle == /\ source = Idle /\ df = Idle /\ startup = Idle /\ req = Idle
NormIdle == table = Idle /\ loaded = Idle
DetectIdle == frame = Idle /\ labelled = Idle
QueryIdle == data = Idle /\ query = Idle /\ response = Idle

NormInit ==
    /\ table \in NormTables
    /\ loaded = NotRun
    /\ StoreIdle /\ DetectIdle /\ QueryIdle

\* _load_and_prepare_data() on the table
Normalize ==
    /\ loaded = NotRun
    /\ loaded' = LoadAndPrepare(table)
    /\ UNCHANGED <<source, df, startup, req, table, frame, labelled, data, query, response>>

NormNext == Normalize

SpecNorm == NormInit /\ [][NormNext]_vars

-----------------------------------------------------------------------------
(* Runs of the detector: one frame, labelled once                          *)

\* The rows of a frame given to the detector.
MaxRows == 5

DetectValues == {-9, 0, 1, 9}

\* A raw Value cell: a number, an empty cell, or text that is no number.
DetectCells == {NaN, Str("n/a")} \cup {Num(v) : v \in DetectValues}

ValueFrame(cells) ==
    Frame(<<"City", "Value">>, [i \in 1..Len(cells) |-> <<Str(RowTags[i]), cells[i]>>])

\* The values 1, 2, 3, 4, 5, 100
ExampleFrame ==
    ValueFrame(<<Num(1), Num(2), Num(3), Num(4), Num(5), Num(100)>>)

DetectFrames ==
    {ValueFrame(cells) : cells \in SeqsUpTo(DetectCells, MaxRows)} \cup {ExampleFrame}

DetectInit ==
    /\ frame \in DetectFrames
    /\ labelled = NotRun
    /\ StoreIdle /\ NormIdle /\ QueryIdle

\* detect_anomalies(df) on the frame
Detect ==
    /\ labelled = NotRun
    /\ labelled' = detect_anomalies(frame)
    /\ UNCHANGED <<source, df, startup, req, table, loaded, frame, data, query, response>>

DetectNext == Detect

SpecDetect == DetectInit /\ [][DetectNext]_vars

-----------------------------------------------------------------------------
(* Properties of the detector                                              *)

Cell(d, i, name) == d.rows[i][TheCol(d, name)]

Detected == labelled # NotRun /\ labelled # Idle

\* C7: every record of a labelled dataset has is_anomaly in {0, 1} and
\* anomaly_score >= 0, with anomaly_score = 0 whenever is_anomaly = 0; a
\* record whose value is null (an empty cell or text that is no number) has
\* is_anomaly = 0 and anomaly_score = 0; and detection succeeds also when
\* every value is null.
C7_LabelsWellFormed ==
    Detected =>
        /\ labelled.ok
        /\ Len(labelled.df.rows) = Len(frame.rows)
        /\ \A i \in 1..Len(frame.rows) :
              LET a == Cell(labelled.df, i, "is_anomaly")
                  sc == Cell(labelled.df, i, "anomaly_score")
              IN  /\ a \in {Num(0), Num(1)}
                  /\ IsNum(sc) /\ sc.n >= 0
                  /\ (a = Num(0) => sc = Num(0))
                  /\ (~IsNum(Cell(frame, i, "Value")) =>
                         /\ isna(Cell(labelled.df, i, "Value"))
                         /\ a = Num(0) /\ sc = Num(0))

\* A labelled frame with a null value and an anomaly below the median.
C7_Witness ==
    /\ Detected /\ labelled.ok
    /\ \E i \in 1..Len(frame.rows) : ~IsNum(Cell(frame, i, "Value"))
    /\ \E i \in 1..Len(frame.rows) :
          /\ Cell(labelled.df, i, "is_anomaly") = Num(1)
          /\ Cell(labelled.df, i, "anomaly_score").n > 0
          /\ Cell(frame, i, "Value").n < 0

\* The non-null values of the frame, as the claim reads them.
NonNullValues(d) ==
    LET cells == SelectSeq(Series(d, "Value"), IsNum)
    IN  [i \in 1..Len(cells) |-> cells[i].n]

\* The k-th smallest of the values: more than k-1 values are at most it and
\* fewer than k are below it.
OrderStat(vs, k) ==
    CHOOSE x \in Range(vs) :
        /\ Cardinality({i \in 1..Len(vs) : vs[i] < x}) < k
        /\ Cardinality({i \in 1..Len(vs) : vs[i] <= x}) >= k

\* Four times the p/4 quantile by linear interpolation between the order
\* statistics around the position p(n-1)/4.
QuartileTimes4(vs, p) ==
    LET h4 == p * (Len(vs) - 1)
        j == h4 \div 4
        g == h4 % 4
    IN  IF g = 0 THEN 4 * OrderStat(vs, j + 1)
        ELSE (4 - g) * OrderStat(vs, j + 1) + g * OrderStat(vs, j + 2)

\* C8: is_anomaly = 1 exactly for the records whose value is non-null and
\* strictly below Q1 - 1.5 IQR or strictly above Q3 + 1.5 IQR, the quartiles
\* and the median taken over all non-null values; anomaly_score is
\* |value - median| for those records and 0 for the others; and of the values
\* 1, 2, 3, 4, 5, 100 only 100 is anomalous, with score 96.5.
C8_FencesAndScore ==
    Detected =>
        /\ labelled.ok
        /\ \A i \in 1..Len(frame.rows) :
              LET vs == NonNullValues(frame)
                  v == Cell(frame, i, "Value")
                  a == Cell(labelled.df, i, "is_anomaly")
                  sc == Cell(labelled.df, i, "anomaly_score")
                  outside ==
                      /\ IsNum(v)
                      /\ LET Q1x4 == QuartileTimes4(vs, 1)
                             Q3x4 == QuartileTimes4(vs, 3)
                         IN  \/ 8 * v.n < 5 * Q1x4 - 3 * Q3x4
                             \/ 8 * v.n > 5 * Q3x4 - 3 * Q1x4
              IN  /\ (a = Num(1)) <=> outside
                  /\ outside => 2 * sc.n = Abs(4 * v.n - QuartileTimes4(vs, 2))
                  /\ ~outside => sc = Num(0)
        /\ frame = ExampleFrame =>
              /\ [i \in 1..6 |-> Cell(labelled.df, i, "is_anomaly")]
                    = <<Num(0), Num(0), Num(0), Num(0), Num(0), Num(1)>>
              /\ [i \in 1..6 |-> Cell(labelled.df, i, "anomaly_score")]
                    = <<Num(0), Num(0), Num(0), Num(0), Num(0), Num(193)>>

\* The example frame, labelled.
C8_Witness ==
    /\ Detected /\ frame = ExampleFrame
    /\ Cell(labelled.df, 6, "is_anomaly") = Num(1)

-----------------------------------------------------------------------------
(* Properties of the normalizer                                            *)

Normalized == loaded # NotRun /\ loaded # Idle

\* The logical fields by name, in the order of Fields.
LogicalFields ==
    <<"country_code", "city", "location", "latitude", "longitude", "pollutant",
      "source_name", "unit", "value", "last_updated", "country_label">>

RequiredFields == Range(LogicalFields) \ {"source_name"}

AliasesOf(field) ==
    Fields[CHOOSE f \in 1..Len(Fields) : LogicalFields[f] = field]

\* The column each logical field has in a loaded dataset.
CanonicalName(field) ==
    CASE field = "country_code" -> "Country_Code"
      [] field = "city" -> "City"
      [] field = "location" -> "Location"
      [] field = "latitude" -> "lat"
      [] field = "longitude" -> "lon"
      [] field = "pollutant" -> "Pollutant"
      [] field = "source_name" -> "Source_Name"
      [] field = "unit" -> "Unit"
      [] field = "value" -> "Value"
      [] field = "last_updated" -> "Last_Updated"
      [] field = "country_label" -> "Country_Label"

\* The normalized headers of the table: trimmed, lowercased, inner
\* whitespace collapsed to one underscore.
NormalizedHeaders == [j \in 1..Len(table.headers) |-> NormalizeHeader(table.headers[j])]

\* The aliases of a field that are among the normalized headers, in the
\* order of the field's alias list.
PresentAliases(field) ==
    SelectSeq(AliasesOf(field), LAMBDA a : a \in Range(NormalizedHeaders))

\* The required fields with no alias among the normalized headers.
MissingFields == {field \in RequiredFields : PresentAliases(field) = <<>>}

\* The logical fields an entry of the error's list of missing fields names.
NamedBy(entry) ==
    IF entry = "Latitude/Longitude" THEN {"latitude", "longitude"}
    ELSE {field \in Range(LogicalFields) : CanonicalName(field) = entry}

\* C6: when some required fields are missing the load fails with a schema
\* error that names exactly the missing fields, each by itself and no
\* resolved field with them, and produces no dataset; a missing source_name
\* alone is no failure, and every record then has "Unknown Source".
C6_ErrorNamesExactlyMissing ==
    Normalized =>
        /\ MissingFields # {} =>
              /\ ~loaded.ok
              /\ loaded.error = "ValueError"
              /\ \A field \in MissingFields :
                    \E i \in 1..Len(loaded.missing) : NamedBy(loaded.missing[i]) = {field}
              /\ \A i \in 1..Len(loaded.missing) :
                    NamedBy(loaded.missing[i]) \subseteq MissingFields
        /\ (MissingFields = {} /\ PresentAliases("source_name") = <<>> /\ loaded.ok) =>
              \A i \in 1..Len(loaded.df.rows) :
                  Cell(loaded.df, i, "Source_Name") = Str("Unknown Source")

\* The cell of row i of the table under the header that normalizes to alias.
SourceCell(alias, i) ==
    table.rows[i][CHOOSE j \in 1..Len(table.headers) : NormalizedHeaders[j] = alias]

\* What a loaded dataset holds for a source cell: the numeric columns keep
\* numbers and turn everything else to null.
Coerced(field, c) ==
    IF field \in {"latitude", "longitude", "value"} THEN (IF IsNum(c) THEN c ELSE NaN)
    ELSE c

\* C9: a table with an alias of every required field among its normalized
\* headers, also one with several aliases of one field, is normalized
\* without error; every logical field holds the data of the column of the
\* first alias of its list that is present, and the rows keep their order.
C9_FirstAliasWins ==
    (Normalized /\ MissingFields = {}) =>
        /\ loaded.ok
        /\ Len(loaded.df.rows) = Len(table.rows)
        /\ \A field \in Range(LogicalFields) :
              /\ Cardinality(ColIdx(loaded.df, CanonicalName(field))) = 1
              /\ \A i \in 1..Len(table.rows) :
                    Cell(loaded.df, i, CanonicalName(field)) =
                        IF PresentAliases(field) = <<>>
                        THEN Str("Unknown Source")
                        ELSE Coerced(field, SourceCell(PresentAliases(field)[1], i))

-----------------------------------------------------------------------------
(* Runs of /map-data: one loaded dataset, queried once                     *)

\* The records of a queried dataset.
MaxRecs == 4

\* What a record of a queried dataset has for its country label, pollutant
\* and value; its other cells are those of RawCell.
QueryRowKinds ==
    {[label |-> Str("India"), pollutant |-> Str("PM2.5"), value |-> Num(1)],
     [label |-> Str("United States"), pollutant |-> Str("NO2"), value |-> Num(1)],
     [label |-> Str("India"), pollutant |-> Str("NO2"), value |-> Num(9)],
     [label |-> NaN, pollutant |-> Str("PM2.5"), value |-> Num(9)]}

\* The CSV with one row per kind, under plainly spelled headers.
QueryTable(kinds) ==
    LET names == SelectSeq(ColumnOrder, LAMBDA a : a \in FirstAliases)
    IN  [headers |-> [j \in 1..Len(names) |-> Header(names[j], "plain")],
         rows |-> [i \in 1..Len(kinds) |->
                     [j \in 1..Len(names) |->
                         IF names[j] = "country_label" THEN kinds[i].label
                         ELSE IF names[j] = "pollutant" THEN kinds[i].pollutant
                         ELSE IF names[j] = "value" THEN kinds[i].value
                         ELSE RawCell(names[j], i)]]]

\* The datasets the store can hold after loading such a CSV.
QueryDatasets ==
    {LoadAndPrepare(QueryTable(kinds)).df : kinds \in SeqsUpTo(QueryRowKinds, MaxRecs)}

\* Values of the country parameter, each with the set of labels it stands
\* for (given = FALSE: no country filter).
CountryParams ==
    {[text |-> Absent, given |-> FALSE, set |-> {}],
     [text |-> Given(<<>>), given |-> FALSE, set |-> {}],
     [text |-> Given(<<"I","n","d","i","a">>), given |-> TRUE, set |-> {"India"}],
     [text |-> Given(<<"I","n","d","i","a",","," ","U","n","i","t","e","d"," ","S","t","a","t","e","s">>),
      given |-> TRUE, set |-> {"India", "United States"}],
     [text |-> Given(<<" ","U","n","i","t","e","d"," ","S","t","a","t","e","s"," ",",">>),
      given |-> TRUE, set |-> {"United States"}]}

PollutantParams ==
    {[text |-> Absent, given |-> FALSE, set |-> {}],
     [text |-> Given(<<"N","O","2">>), given |-> TRUE, set |-> {"NO2"}],
     [text |-> Given(<<"P","M","2",".","5",",","N","O","2">>), given |-> TRUE, set |-> {"PM2.5", "NO2"}]}

\* Values of the limit parameter: any integer is accepted.
Limits == {-1, 0, 1, 2, MaxRecs, DefaultLimit}

QueryInit ==
    /\ data \in QueryDatasets
    /\ query = NotRun
    /\ response = NotRun
    /\ StoreIdle /\ NormIdle /\ DetectIdle

\* GET /map-data?country=..&pollutant=..&only_anomalies=..&limit=..
Measurements(country, pollutant, only_anomalies, limit) ==
    /\ query = NotRun
    /\ query' = [country |-> country, pollutant |-> pollutant,
                 only_anomalies |-> only_anomalies, limit |-> limit]
    /\ response' = map_data(data, country.text, pollutant.text, only_anomalies, limit)
    /\ UNCHANGED <<source, df, startup, req, table, loaded, frame, labelled, data>>

QueryNext ==
    \E country \in CountryParams, pollutant \in PollutantParams,
       only_anomalies \in BOOLEAN, limit \in Limits :
        Measurements(country, pollutant, only_anomalies, limit)

SpecQuery == QueryInit /\ [][QueryNext]_vars

-----------------------------------------------------------------------------
(* Properties of /map-data                                                 *)

Queried == response # NotRun /\ response # Idle

\* The record /map-data returns for a row of the dataset.
RecordOf(row) == [c \in Range(OutputColumns) |-> row[TheCol(data, c)]]

LabelIn(c, set) == c.k = "str" /\ c.s \in set

\* A row matches: no country filter or its label is in the set, no pollutant
\* filter or its pollutant is in the set, not only-anomalies or is_anomaly = 1.
RowMatches(row, q) ==
    /\ q.country.given => LabelIn(row[TheCol(data, "Country_Label")], q.country.set)
    /\ q.pollutant.given => LabelIn(row[TheCol(data, "Pollutant")], q.pollutant.set)
    /\ q.only_anomalies => row[TheCol(data, "is_anomaly")] = Num(1)

MatchingRows == SelectSeq(data.rows, LAMBDA row : RowMatches(row, query))

Min(a, b) == IF a <= b THEN a ELSE b

\* C3: for every integer limit k the query returns at most k records, its
\* count is min(total_matches, k), and the records are the first of the
\* matches in dataset order.
C3_LimitTruncates ==
    Queried =>
        /\ Len(response.data) <= query.limit
        /\ response.count = Min(Len(MatchingRows), query.limit)
        /\ response.count = Len(response.data)
        /\ \A i \in 1..Len(response.data) :
              i <= Len(MatchingRows) /\ response.data[i] = RecordOf(MatchingRows[i])

\* C4: with only_anomalies and a limit not below the size of the dataset the
\* query returns exactly the records with is_anomaly = 1 whose label is in
\* the country set and whose pollutant is in the pollutant set, where given.
C4_AnomalyFilterExact ==
    (Queried /\ query.only_anomalies /\ query.limit >= Len(data.rows)) =>
        LET wanted == SelectSeq(data.rows, LAMBDA row :
                /\ row[TheCol(data, "is_anomaly")] = Num(1)
                /\ query.country.given =>
                      LabelIn(row[TheCol(data, "Country_Label")], query.country.set)
                /\ query.pollutant.given =>
                      LabelIn(row[TheCol(data, "Pollutant")], query.pollutant.set))
        IN  /\ response.count = Len(wanted)
            /\ response.data = [i \in 1..Len(wanted) |-> RecordOf(wanted[i])]

\* An anomalies-only query with both filters given that returns a record and
\* leaves out one that passes both filters and is no anomaly.
C4_Witness ==
    /\ Queried /\ query.only_anomalies /\ query.limit >= Len(data.rows)
    /\ query.country.given /\ query.pollutant.given
    /\ response.count = 1
    /\ \E i \in 1..Len(data.rows) :
          /\ Cell(data, i, "is_anomaly") = Num(0)
          /\ LabelIn(Cell(data, i, "Country_Label"), query.country.set)
          /\ LabelIn(Cell(data, i, "Pollutant"), query.pollutant.set)

-----------------------------------------------------------------------------
(* Runs of /map-data over filter texts                                     *)

\* The characters of a filter text, at most this many.
MaxStrLen == 4

Alphabet == {"a", "b", " ", "\t", ","}

ExampleText == <<"I","n","d","i","a",","," ","U","n","i","t","e","d"," ","S","t","a","t","e","s">>

FilterTexts ==
    {Absent, Given(ExampleText)} \cup {Given(cs) : cs \in SeqsUpTo(Alphabet, MaxStrLen)}

\* A dataset whose labels and pollutants are spelled from the alphabet, or
\* are those of the example, or are null.
FilterRows ==
    <<[label |-> Str("a"), pollutant |-> Str("b"), value |-> Num(1)],
      [label |-> Str("b"), pollutant |-> Str("a b"), value |-> Num(1)],
      [label |-> Str("a b"), pollutant |-> Str("a"), value |-> Num(1)],
      [label |-> NaN, pollutant |-> NaN, value |-> Num(1)],
      [label |-> Str("India"), pollutant |-> Str("United States"), value |-> Num(1)],
      [label |-> Str("United States"), pollutant |-> Str("India"), value |-> Num(9)]>>

FilterDatasets ==
    {LoadAndPrepare(QueryTable(FilterRows)).df,
     LoadAndPrepare(QueryTable(Reversed(FilterRows))).df}

FilterInit ==
    /\ data \in FilterDatasets
    /\ query = NotRun
    /\ response = NotRun
    /\ StoreIdle /\ NormIdle /\ DetectIdle

\* GET /map-data?country=text
MeasurementsByCountry(text) ==
    /\ query = NotRun
    /\ query' = [column |-> "Country_Label", text |-> text]
    /\ response' = map_data(data, text, Absent, FALSE, DefaultLimit)
    /\ UNCHANGED <<source, df, startup, req, table, loaded, frame, labelled, data>>

\* GET /map-data?pollutant=text
MeasurementsByPollutant(text) ==
    /\ query = NotRun
    /\ query' = [column |-> "Pollutant", text |-> text]
    /\ response' = map_data(data, Absent, text, FALSE, DefaultLimit)
    /\ UNCHANGED <<source, df, startup, req, table, loaded, frame, labelled, data>>

FilterNext ==
    \E text \in FilterTexts :
        \/ MeasurementsByCountry(text)
        \/ MeasurementsByPollutant(text)

SpecFilter == FilterInit /\ [][FilterNext]_vars

\* The tokens of a filter text: its maximal comma-free stretches, without
\* the whitespace around them, that are not empty.
IsToken(cs, i, j) ==
    /\ i <= j
    /\ cs[i] \notin Whitespace /\ cs[j] \notin Whitespace
    /\ \A k \in i..j : cs[k] # ","
    /\ \E l \in 0..(i - 1) :
          /\ l = 0 \/ cs[l] = ","
          /\ \A k \in (l + 1)..(i - 1) : cs[k] \in Whitespace
    /\ \E r \in (j + 1)..(Len(cs) + 1) :
          /\ r = Len(cs) + 1 \/ cs[r] = ","
          /\ \A k \in (j + 1)..(r - 1) : cs[k] \in Whitespace

Tokens(cs) ==
    {Join(SubSeq(cs, i, j)) : <<i, j>> \in
        {ij \in (1..Len(cs)) \X (1..Len(cs)) : IsToken(cs, ij[1], ij[2])}}

AllRecords == [i \in 1..Len(data.rows) |-> RecordOf(data.rows[i])]

\* The records whose cell under the filtered column is in the set.
RecordsIn(set) ==
    LET rows == SelectSeq(data.rows, LAMBDA row : LabelIn(row[TheCol(data, query.column)], set))
    IN  [i \in 1..Len(rows) |-> RecordOf(rows[i])]

\* The filter list is the text's tokens, and that of the example is
\* {"India", "United States"}.
ParsedAsTokens ==
    query.text # Absent =>
        /\ Range(ParseList(query.text.s)) = Tokens(query.text.s)
        /\ query.text.s = ExampleText =>
              Range(ParseList(query.text.s)) = {"India", "United States"}

\* C5 as claimed: the filter text is split on commas, its tokens trimmed and
\* the empty ones dropped, and a filter that is absent or has no token
\* restricts nothing.
C5_EmptyTokenSetUnrestricted ==
    Queried =>
        /\ ParsedAsTokens
        /\ (query.text = Absent \/ Tokens(query.text.s) = {}) =>
              response.data = AllRecords
        /\ (query.text # Absent /\ Tokens(query.text.s) # {}) =>
              response.data = RecordsIn(Tokens(query.text.s))

\* C5 as the code has it: the filter text is split on commas, its tokens
\* trimmed and the empty ones dropped; a filter that is absent or the empty
\* text restricts nothing; any other text keeps the records whose label is
\* one of its tokens, so that a text without tokens, such as ",", keeps none.
C5_EmptyTextUnrestricted ==
    Queried =>
        /\ ParsedAsTokens
        /\ (query.text = Absent \/ query.text.s = <<>>) =>
              response.data = AllRecords
        /\ (query.text # Absent /\ query.text.s # <<>>) =>
              response.data = RecordsIn(Tokens(query.text.s))
        /\ response.count = Len(response.data)

\* A text of blanks and commas only, answered with no record.
C5_Witness ==
    /\ Queried /\ query.text # Absent
    /\ query.text.s # <<>> /\ Tokens(query.text.s) = {}
    /\ \E i \in 1..Len(query.text.s) : query.text.s[i] = ","
    /\ response.count = 0 /\ Len(data.rows) > 0

-----------------------------------------------------------------------------
(* The store and the requests: startup_event, get_df and the endpoints     *)

\* app.state has no attribute df: nothing was ever assigned to it.
Unset == [k |-> "unset"]

\* app.state.df is None
NoneDf == [k |-> "None"]

\* The requests in flight at one time.
MaxReqs == 2

Reqs == 1..MaxReqs

QueryOps == {"filters", "map-data", "summary"}

\* The files that can stand at CSV_PATH: none, one without a unit column,
\* and two that load, the second without a source_name column.
StoreSources ==
    {NoFile,
     MakeTable(FirstAliases \ {"unit"}, "plain", 1),
     MakeTable(FirstAliases, "spaced", NumRows),
     MakeTable((FirstAliases \ {"source_name", "country_label"}) \cup {"country"}, "shout", 1)}

\* The datasets a load can build.
CompleteDatasets ==
    {LoadAndPrepare(s).df : s \in {t \in StoreSources : LoadAndPrepare(t).ok}}

HoldsDataset(x) == x # Unset /\ x # NoneDf

IdleReq ==
    [op |-> "-", pc |-> "idle", saw |-> "-", loads |-> 0,
     built |-> NotRun, snap |-> NotRun, wrote |-> NotRun, result |-> NotRun]

\* What an endpoint answers from the dataset d; /map-data is called with
\* its defaults.
Answer(op, d) ==
    IF op = "filters" THEN filters(d)
    ELSE IF op = "map-data" THEN map_data(d, Absent, Absent, FALSE, DefaultLimit)
    ELSE summary(d)

\* A variant of Propagate: the exception is caught and the request is
\* answered with no data.
Swallow(b) == [ok |-> TRUE, body |-> [count |-> 0, data |-> <<>>]]

\* An exception of the load leaves the endpoint: the request fails with it.
Propagate(b) == [ok |-> FALSE, error |-> b.error]

Init ==
    /\ source \in StoreSources
    /\ df = Unset
    /\ startup = [pc |-> "pending", built |-> NotRun]
    /\ req = [r \in Reqs |-> IdleReq]
    /\ NormIdle /\ DetectIdle /\ QueryIdle

Others == <<table, loaded, frame, labelled, data, query, response>>

\* The file at CSV_PATH is replaced, removed or created.
EnvChange ==
    /\ \E s \in StoreSources \ {source} : source' = s
    /\ UNCHANGED <<df, startup, req>>
    /\ UNCHANGED Others

\* startup_event, line 166: df = _load_and_prepare_data()
StartupLoad ==
    /\ startup.pc = "pending"
    /\ startup' = [pc |-> "loaded", built |-> LoadAndPrepare(source)]
    /\ UNCHANGED <<source, df, req>>
    /\ UNCHANGED Others

\* startup_event, lines 167 and 172: app.state.df = df, or None in the
\* except branch.
StartupAssign ==
    /\ startup.pc = "loaded"
    /\ df' = IF startup.built.ok THEN startup.built.df ELSE NoneDf
    /\ startup' = [startup EXCEPT !.pc = "done"]
    /\ UNCHANGED <<source, req>>
    /\ UNCHANGED Others

\* A request arrives.
Issue(r, op) ==
    /\ req[r].pc = "idle"
    /\ req' = [req EXCEPT ![r] = [IdleReq EXCEPT !.op = op, !.pc = "start"]]
    /\ UNCHANGED <<source, df, startup>>
    /\ UNCHANGED Others

\* health(): app.state.df is not None; reading the attribute raises
\* AttributeError when it was never assigned.
Health(r) ==
    /\ req[r].pc = "start" /\ req[r].op = "health"
    /\ req' = [req EXCEPT ![r] =
          [@ EXCEPT !.pc = "done",
                    !.saw = IF df = Unset THEN "unset"
                            ELSE IF df = NoneDf THEN "none" ELSE "dataset",
                    !.result = IF df = Unset
                               THEN [ok |-> FALSE, error |-> "AttributeError"]
                               ELSE [ok |-> TRUE,
                                     body |-> [status |-> "ok",
                                               data_loaded |-> df # NoneDf]]]]
    /\ UNCHANGED <<source, df, startup>>
    /\ UNCHANGED Others

\* get_df, lines 176-177: df = getattr(app.state, "df", None)
GetDf(r) ==
    /\ req[r].pc = "start" /\ req[r].op \in QueryOps
    /\ req' = [req EXCEPT ![r] =
          IF HoldsDataset(df)
          THEN [@ EXCEPT !.pc = "compute", !.saw = "dataset", !.snap = df]
          ELSE [@ EXCEPT !.pc = "load", !.saw = "empty"]]
    /\ UNCHANGED <<source, df, startup>>
    /\ UNCHANGED Others

\* get_df, line 179: df = _load_and_prepare_data(); an exception ends the
\* request.
Load(r) ==
    /\ req[r].pc = "load"
    /\ LET b == LoadAndPrepare(source)
       IN  req' = [req EXCEPT ![r] =
               IF b.ok
               THEN [@ EXCEPT !.pc = "assign", !.loads = @ + 1, !.built = b]
               ELSE [@ EXCEPT !.pc = "done", !.loads = @ + 1, !.built = b,
                              !.result = Propagate(b)]]
    /\ UNCHANGED <<source, df, startup>>
    /\ UNCHANGED Others

\* get_df, lines 180-181: app.state.df = df; return df
Assign(r) ==
    /\ req[r].pc = "assign"
    /\ df' = req[r].built.df
    /\ req' = [req EXCEPT ![r] =
          [@ EXCEPT !.pc = "compute", !.snap = req[r].built.df,
                    !.wrote = req[r].built.df]]
    /\ UNCHANGED <<source, startup>>
    /\ UNCHANGED Others

\* The endpoint computes its answer from the frame get_df returned.
Compute(r) ==
    /\ req[r].pc = "compute"
    /\ req' = [req EXCEPT ![r] =
          [@ EXCEPT !.pc = "done",
                    !.result = [ok |-> TRUE, body |-> Answer(req[r].op, req[r].snap)]]]
    /\ UNCHANGED <<source, df, startup>>
    /\ UNCHANGED Others

\* The response is sent; the worker is free for the next request.
Retire(r) ==
    /\ req[r].pc = "done"
    /\ req' = [req EXCEPT ![r] = IdleReq]
    /\ UNCHANGED <<source, df, startup>>
    /\ UNCHANGED Others

Next ==
    \/ EnvChange
    \/ StartupLoad
    \/ StartupAssign
    \/ \E r \in Reqs :
          \/ \E op \in QueryOps \cup {"health"} : Issue(r, op)
          \/ Health(r)
          \/ GetDf(r)
          \/ Load(r)
          \/ Assign(r)
          \/ Compute(r)
          \/ Retire(r)

Spec == Init /\ [][Next]_vars

-----------------------------------------------------------------------------
(* Properties of the store                                                 *)

IsReq == req # Idle

\* A query that found no dataset in the store has made one load attempt by
\* the time it ends; after a successful load it has published the dataset it
\* built and answers from it; after a failed one it ends with the error of
\* the load, has no answer and has published nothing.
LazyLoadOutcome ==
    \A r \in Reqs :
        (req[r].op \in QueryOps /\ req[r].pc = "done" /\ req[r].saw = "empty") =>
            /\ req[r].loads = 1
            /\ req[r].built.ok =>
                  /\ req[r].built.df \in CompleteDatasets
                  /\ req[r].wrote = req[r].built.df
                  /\ req[r].result.ok
                  /\ req[r].result.body = Answer(req[r].op, req[r].built.df)
            /\ ~req[r].built.ok =>
                  /\ req[r].built.error \in {"FileNotFoundError", "ValueError"}
                  /\ req[r].result = [ok |-> FALSE, error |-> req[r].built.error]
                  /\ req[r].wrote = NotRun

\* The step in which a query's load fails leaves the store as it is: a store
\* without a dataset is still without one.  The step in which a query
\* publishes puts the dataset it built into the store.
LazyLoadStep ==
    \A r \in Reqs :
        /\ (req[r].pc = "load" /\ req'[r].pc = "done") =>
              /\ df' = df
              /\ ~HoldsDataset(df) => ~HoldsDataset(df')
        /\ (req[r].pc = "load" /\ req'[r].pc # "load") => req'[r].loads = 1
        /\ (req[r].pc = "assign" /\ req'[r].pc = "compute") =>
              /\ df' = req[r].built.df
              /\ req'[r].snap = df'

\* C1: a query issued while the store holds no dataset makes exactly one
\* load attempt; if it succeeds the dataset is published and the query is
\* answered from it; if it fails the error reaches the caller, no data is
\* returned and the store is left without a dataset.
C1_LazyLoadOnce == [](IsReq => LazyLoadOutcome) /\ [][IsReq => LazyLoadStep]_vars

\* A query that found the store empty after a failed startup load and failed
\* itself, the store still being empty.
C1_Witness ==
    /\ IsReq
    /\ startup.pc = "done" /\ df = NoneDf
    /\ \E r \in Reqs :
          /\ req[r].op \in QueryOps /\ req[r].pc = "done" /\ req[r].saw = "empty"
          /\ ~req[r].result.ok

\* C2: in every state of the store health() succeeds with status "ok",
\* triggers no load, and reports data_loaded exactly when the store holds a
\* dataset.
C2_HealthAlwaysSucceeds ==
    IsReq =>
        \A r \in Reqs :
            (req[r].op = "health" /\ req[r].pc = "done") =>
                /\ req[r].result.ok
                /\ req[r].result.body.status = "ok"
                /\ req[r].result.body.data_loaded = (req[r].saw = "dataset")
                /\ req[r].loads = 0

\* Every answer of a finished query was computed from one complete dataset.
AnswersFromComplete ==
    \A r \in Reqs :
        (req[r].op \in QueryOps /\ req[r].pc = "done" /\ req[r].result.ok) =>
            \E d \in CompleteDatasets : req[r].result.body = Answer(req[r].op, d)

\* The store holds no dataset or a completely built one.
StoreHoldsComplete == df \in {Unset, NoneDf} \cup CompleteDatasets

\* Once the store holds a dataset it never again holds none.
StoreStaysLoaded == HoldsDataset(df) => HoldsDataset(df')

\* C10: under every interleaving of the startup load and the queries the
\* store holds no dataset or a complete one, every answer comes from one
\* complete dataset, and a store that holds a dataset never goes back to
\* holding none.
C10_SnapshotsAtomicAndKept ==
    /\ [](IsReq => (StoreHoldsComplete /\ AnswersFromComplete))
    /\ [][IsReq => StoreStaysLoaded]_vars

=============================================================================
